---- MODULE Spec2Model ----
(***************************************************************************)
(* A model of src/domino.py: the cascading-failure simulator.              *)
(*                                                                         *)
(* Healths, threshold, heal_to and the glitch delta are fixed-point        *)
(* numbers in units of 2^-24 (1.0 is 16777216); alpha is counted in halves.*)
(* The inputs are multiples of 1/8, on which the float arithmetic of the   *)
(* code is exact, so that a comparison with the threshold is the           *)
(* comparison the code makes.                                              *)
(*                                                                         *)
(* One tick of Simulator.run_tick is the sequence of steps                 *)
(*   StartTick (snapshot, glitch) -> Recover (handle_recovery)             *)
(*   -> Sweep ... Sweep (propagate_health) -> Classify (threshold, RCA)    *)
(* which pc forces in this order.                                          *)
(***************************************************************************)
EXTENDS Integers, Sequences, FiniteSets, TLC

VARIABLES
    names,           \* ServiceGraph.services keys, in dict (insertion) order
    depends_on,      \* Service.depends_on of every service
    config,          \* Simulator.config
    hash_order,      \* the order in which this process iterates a set of names
    tick,            \* Simulator.tick
    pc,              \* where run / run_tick stands
    health,          \* Service.health
    initial_health,  \* Service.initial_health
    is_failed,       \* Service.is_failed
    failed_at_tick,  \* Service.failed_at_tick
    recovery_timer,  \* Service.recovery_timer
    events,          \* Simulator.events
    incident_log,    \* Simulator.incident_log
    history,         \* Simulator.service_degradation_history
    log,             \* the lines Simulator.log wrote (HEAL, RECOVERY, INFO)
    sweep,           \* sweeps of propagate_health done in this tick
    changed,         \* propagate_health's flag after the last sweep
    query_result     \* what the query made after the run returned or raised

vars == <<names, depends_on, config, hash_order, tick, pc, health,
          initial_health, is_failed, failed_at_tick, recovery_timer,
          events, incident_log, history, log, sweep, changed, query_result>>

---------------------------------------------------------------------------
(* Bounds and program constants *)

MaxTicks == 3

\* 1.0 in units of 2^-24
One == 16777216

\* abs(...) > 0.001 in units of 2^-24: 0.001 is 16777.216 units, and on whole
\* units "more than 16777.216" is "more than 16777"
Tolerance == 16777

\* config threshold: 0.375, 0.75
Thresholds == {6291456, 12582912}

\* config alpha, in halves: 0.5, 1.0, 2.0
Alphas == {1, 2, 4}

\* config heal_to: 0.625, 0.875
HealTos == {10485760, 14680064}

\* config cooldown
Cooldowns == {0, 1, 2}

\* random.uniform(0.2, 0.5): 0.25 and 0.5
Deltas == {4194304, 8388608}

\* input health: 0.625, 1.0
InputHealths == {10485760, 16777216}

---------------------------------------------------------------------------
(* Helpers *)

Max(a, b) == IF a >= b THEN a ELSE b

Min(a, b) == IF a <= b THEN a ELSE b

Abs(a) == IF a >= 0 THEN a ELSE -a

SeqToSet(s) == {s[i] : i \in 1..Len(s)}

RECURSIVE SumOver(_, _)
SumOver(f, S) ==
    IF S = {} THEN 0
    ELSE LET x == CHOOSE y \in S : TRUE IN f[x] + SumOver(f, S \ {x})

\* The elements of set S in the order a loop over it meets them under order ord
SetIter(S, ord) == SelectSeq(ord, LAMBDA x : x \in S)

Reverse(s) == [i \in 1..Len(s) |-> s[Len(s) + 1 - i]]

\* Two of the orders in which a process may iterate a set of these names
\* (str hashes are randomized per process)
HashOrders(ns) == {ns, Reverse(ns)}

---------------------------------------------------------------------------
(* ServiceGraph *)

Services == SeqToSet(names)

\* the dependencies of s that exist in the graph
ValidDeps(s) == depends_on[s] \cap Services

\* a plausible slip: the edge stored the wrong way round
\* (rev_adj[name].add(dep))
RevAdjSwapped(d) == depends_on[d] \cap Services

\* build_reverse_adjacency: rev_adj[dep].add(name) for existing dep
RevAdj(d) == {s \in Services : d \in depends_on[s]}

\* Kahn's algorithm: the nodes left when no node of in-degree 0 remains
RECURSIVE KahnRest(_)
KahnRest(rest) ==
    LET ready == {n \in rest : ValidDeps(n) \cap rest = {}}
    IN  IF ready = {} THEN rest ELSE KahnRest(rest \ ready)

\* topological_sort returns an order (not None)
Acyclic == KahnRest(Services) = {}

---------------------------------------------------------------------------
(* Simulator.apply_glitch *)

\* a plausible slip: the victim drawn among all services
EligibleAll == Services

\* eligible = [s for s in services if s.health >= threshold]
Eligible == {s \in Services : health[s] >= config.threshold}

Glitched(h, delta) == Max(0, h - delta)

---------------------------------------------------------------------------
(* Simulator.propagate_health *)

\* alpha * (threshold - dep.health) of one failing dependency
Contribution(h, d) == (config.alpha * (config.threshold - h[d])) \div 2

\* total_degradation of service s under healths h
Degradation(s, h) ==
    LET bad == {d \in ValidDeps(s) : h[d] < config.threshold}
    IN  SumOver([d \in bad |-> Contribution(h, d)], bad)

\* a plausible slip: the clamp at 0 left out
NewHealthUnclamped(base, total) == base - total

\* new_health = max(0, service.initial_health - total_degradation)
NewHealth(base, total) == Max(0, base - total)

\* a plausible slip: the guard left out, every service with a dependency is
\* set to its baseline minus the sum
DegradedAlways(total) == TRUE

\* if total_degradation > 0
Degraded(total) == total > 0

\* the body of the inner loop for one service
SweepNode(h, s) ==
    IF depends_on[s] = {} THEN h
    ELSE LET total == Degradation(s, h)
             new_health == NewHealth(initial_health[s], total)
         IN  IF Degraded(total) /\ Abs(new_health - h[s]) > Tolerance
             THEN [h EXCEPT ![s] = new_health]
             ELSE h

\* one sweep over the services in order ord, from its i-th element on
RECURSIVE SweepFrom(_, _, _)
SweepFrom(h, ord, i) ==
    IF i > Len(ord) THEN h ELSE SweepFrom(SweepNode(h, ord[i]), ord, i + 1)

SweepOnce(h, ord) == SweepFrom(h, ord, 1)

\* a plausible slip: one sweep too many
SweepCapOneMore(n) == n + 1

\* a plausible slip: a single pass instead of iterating
SweepCapSingle(n) == Min(n, 1)

\* for _ in range(len(self.graph.services))
SweepCap(n) == n

\* the whole of propagate_health with k sweeps done: the healths it leaves
RECURSIVE PropagateFrom(_, _, _)
PropagateFrom(h, ord, k) ==
    IF k >= SweepCap(Len(ord)) THEN h
    ELSE LET h2 == SweepOnce(h, ord)
         IN  IF h2 = h THEN h ELSE PropagateFrom(h2, ord, k + 1)

PropagateHealth(h, ord) == PropagateFrom(h, ord, 0)

---------------------------------------------------------------------------
(* Simulator.propagate_recovery and Simulator.handle_recovery, on a record  *)
(* st = [health, is_failed, recovery_timer, log]                            *)

\* the improved health of a dependent
Bumped(old) == Min(One, old + (config.heal_to - old) \div 2)

\* a plausible slip: the flag is cleared and the timer left armed
ClearedTimerKept(new, timer) == timer

\* if dependent.health >= threshold: dependent.recovery_timer = -1
ClearedTimer(new, timer) == IF new >= config.threshold THEN -1 ELSE timer

\* if dependent.health >= threshold: dependent.is_failed = False
ClearedFlag(new, flag) == IF new >= config.threshold THEN FALSE ELSE flag

\* the body of "for dependent_name in rev_adj[current]" for one dependent d;
\* r = [st, queue, visited, evaluated]
RippleDependent(r, d) ==
    IF d \in r.visited THEN r
    ELSE LET all_deps_healthy ==
                 \A dep \in ValidDeps(d) : r.st.health[dep] >= config.threshold
             old == r.st.health[d]
             new == Bumped(old)
             seen == [r EXCEPT !.evaluated = Append(@, d)]
         IN  IF all_deps_healthy /\ old < config.heal_to
             THEN [seen EXCEPT
                      !.st.health[d] = new,
                      !.st.is_failed[d] = ClearedFlag(new, @),
                      !.st.recovery_timer[d] = ClearedTimer(new, @),
                      !.st.log = Append(@, [tag |-> "RECOVERY", tick |-> tick,
                                            service |-> d, old |-> old, new |-> new]),
                      !.visited = @ \cup {d},
                      !.queue = Append(@, d)]
             ELSE seen

RECURSIVE RippleDependents(_, _, _)
RippleDependents(r, ds, i) ==
    IF i > Len(ds) THEN r
    ELSE RippleDependents(RippleDependent(r, ds[i]), ds, i + 1)

\* while queue: ...
RECURSIVE RippleQueue(_, _)
RippleQueue(r, ord) ==
    IF r.queue = <<>> THEN r
    ELSE LET current == Head(r.queue)
         IN  RippleQueue(RippleDependents([r EXCEPT !.queue = Tail(@)],
                                          SetIter(RevAdj(current), ord), 1), ord)

RippleRun(st, healed, ord) ==
    RippleQueue([st |-> st, queue |-> <<healed>>, visited |-> {healed},
                 evaluated |-> <<>>], ord)

PropagateRecovery(st, healed, ord) == RippleRun(st, healed, ord).st

\* a plausible slip: the heal leaves the flag as it was
HealedFlagKept(flag) == flag

\* service.is_failed = False
HealedFlag(flag) == FALSE

\* a plausible slip: the heal leaves the timer at 0
HealedTimerKept(timer) == timer

\* service.recovery_timer = -1
HealedTimer(timer) == -1

\* the three assignments of the heal loop
HealAssign(st, s) ==
    [st EXCEPT !.health[s] = config.heal_to,
               !.is_failed[s] = HealedFlag(@),
               !.recovery_timer[s] = HealedTimer(@),
               !.log = Append(@, [tag |-> "HEAL", tick |-> tick, service |-> s,
                                  old |-> st.health[s], new |-> config.heal_to])]

RECURSIVE HealAll(_, _, _, _)
HealAll(st, to_heal, i, ord) ==
    IF i > Len(to_heal) THEN st
    ELSE HealAll(PropagateRecovery(HealAssign(st, to_heal[i]), to_heal[i], ord),
                 to_heal, i + 1, ord)

\* the propagate_recovery invocations of the heal loop, in order: for each
\* healed service the record RippleRun ends with
RECURSIVE RippleRunsFrom(_, _, _, _)
RippleRunsFrom(st, to_heal, i, ord) ==
    IF i > Len(to_heal) THEN <<>>
    ELSE LET run == RippleRun(HealAssign(st, to_heal[i]), to_heal[i], ord)
         IN  <<run>> \o RippleRunsFrom(run.st, to_heal, i + 1, ord)

\* the first loop: timers of failed services count down
TimersDown(st) ==
    [st EXCEPT !.recovery_timer =
        [s \in Services |->
            IF st.is_failed[s] /\ st.recovery_timer[s] > 0
            THEN st.recovery_timer[s] - 1 ELSE st.recovery_timer[s]]]

ServicesToHeal(st) == SelectSeq(names, LAMBDA s : st.recovery_timer[s] = 0)

HandleRecovery(st, ord) ==
    IF ~config.has_cooldown THEN st
    ELSE LET down == TimersDown(st)
         IN  HealAll(down, ServicesToHeal(down), 1, ord)

\* the propagate_recovery invocations handle_recovery makes from st
RippleRuns(st, ord) ==
    IF ~config.has_cooldown THEN <<>>
    ELSE LET down == TimersDown(st)
         IN  RippleRunsFrom(down, ServicesToHeal(down), 1, ord)

\* the services handle_recovery heals from st, in order
HealedServices(st) ==
    IF ~config.has_cooldown THEN <<>> ELSE ServicesToHeal(TimersDown(st))

\* the services' mutable fields as handle_recovery sees them
NodeState ==
    [health |-> health, is_failed |-> is_failed,
     recovery_timer |-> recovery_timer, log |-> log]

---------------------------------------------------------------------------
(* Simulator.get_blast_radius and Simulator.perform_rca *)

\* the breadth-first walk over rev_adj: the visited set it ends with
RECURSIVE ReachFrom(_, _)
ReachFrom(frontier, visited) ==
    LET next == UNION {RevAdj(c) : c \in frontier} \ visited
    IN  IF next = {} THEN visited ELSE ReachFrom(next, visited \cup next)

\* a plausible slip: only the direct dependents
GetBlastRadiusDirect(start) == RevAdj(start) \ {start}

\* get_blast_radius: the impacted set
GetBlastRadius(start) == ReachFrom({start}, {start}) \ {start}

\* a plausible slip: the failed neighbours looked up on the dependents' side
IsRootByDependents(s, fl) == \A d \in RevAdj(s) : ~fl[d]

\* is_root of perform_rca, under the flags fl
IsRoot(s, fl) == \A d \in depends_on[s] : ~(d \in Services /\ fl[d])

\* min(failed_services, key=health): the first of the lowest health
MinByHealth(F, h) ==
    F[CHOOSE i \in 1..Len(F) :
        /\ \A j \in 1..Len(F) : h[F[j]] >= h[F[i]]
        /\ \A j \in 1..(i - 1) : h[F[j]] > h[F[i]]]

RootCauses(F, h, fl) ==
    LET roots == SelectSeq(F, LAMBDA s : IsRoot(s, fl))
    IN  IF roots = <<>> /\ F # <<>> THEN <<MinByHealth(F, h)>> ELSE roots

\* sorted(root_causes, key=len(blast radius), reverse=True): a stable sort
RECURSIVE InsertDesc(_, _)
InsertDesc(sorted, r) ==
    IF sorted = <<>> THEN <<r>>
    ELSE IF Cardinality(GetBlastRadius(Head(sorted))) >= Cardinality(GetBlastRadius(r))
         THEN <<Head(sorted)>> \o InsertDesc(Tail(sorted), r)
         ELSE <<r>> \o sorted

RECURSIVE SortedRootsFrom(_, _, _)
SortedRootsFrom(roots, i, acc) ==
    IF i > Len(roots) THEN acc
    ELSE SortedRootsFrom(roots, i + 1, InsertDesc(acc, roots[i]))

SortedRoots(roots) == SortedRootsFrom(roots, 1, <<>>)

\* the record perform_rca appends to incident_log; list(radius) walks a set
Incident(F, h, fl, ord) ==
    LET roots == RootCauses(F, h, fl)
    IN  [tick |-> tick,
         roots |-> roots,
         impacted |-> [r \in SeqToSet(roots) |-> SetIter(GetBlastRadius(r), ord)],
         priority |-> SortedRoots(roots)[1]]

---------------------------------------------------------------------------
(* Simulator.run_tick after propagate_health *)

FailedServices(h) == SelectSeq(names, LAMBDA s : h[s] < config.threshold)

NewlyFailed(h, fl) == SelectSeq(FailedServices(h), LAMBDA s : ~fl[s])

\* a plausible slip: the timer armed one tick too long
ArmedTimerOneMore == IF config.has_cooldown THEN config.cooldown + 1 ELSE -1

\* service.recovery_timer = self.config.get('cooldown', -1)
ArmedTimer == IF config.has_cooldown THEN config.cooldown ELSE -1

\* a plausible slip: RCA runs whenever some service is below the threshold
RcaDueAlways(newly) == TRUE

\* if newly_failed: self.perform_rca(failed_services)
RcaDue(newly) == newly # <<>>

FailureEvents(newly, h) ==
    [i \in 1..Len(newly) |->
        [tick |-> tick, type |-> "failure", service |-> newly[i], health |-> h[newly[i]]]]

---------------------------------------------------------------------------
(* QueryHandler.query_why_failing *)

\* a name that is no service of any input graph
UnknownName == "zz"

\* the glitch events of service name, in ledger order
GlitchEventsOf(name) ==
    SelectSeq(events, LAMBDA e : e.type = "glitch" /\ e.service = name)

\* what query_why_failing(name) returns, or the error it raises, on a graph
\* whose dependency sets are deps; the report keeps the fields the text is
\* built from (sorted(blast) is insertion order for the input names)
WhyFailing(name, deps) ==
    IF name \notin Services
    THEN [kind |-> "not_found", service |-> name]
    ELSE IF health[name] >= config.threshold
    THEN [kind |-> "ok", service |-> name, health |-> health[name]]
    ELSE IF deps[name] \ Services # {}
    THEN \* self.graph.services[d] for a name d that is no service
         [kind |-> "KeyError", service |-> name]
    ELSE LET failed_deps ==
                 SetIter({d \in deps[name] : health[d] < config.threshold},
                         hash_order)
             glitches == GlitchEventsOf(name)
         IN  [kind |-> "report",
              service |-> name,
              health |-> health[name],
              failed_at |-> IF failed_at_tick[name] > 0
                            THEN failed_at_tick[name] ELSE -1,
              failed_deps |->
                  [i \in 1..Len(failed_deps) |->
                      [service |-> failed_deps[i],
                       health |-> health[failed_deps[i]],
                       failed_at |-> failed_at_tick[failed_deps[i]]]],
              glitch |-> IF failed_deps = <<>> /\ glitches # <<>>
                         THEN <<glitches[Len(glitches)]>> ELSE <<>>,
              dependents |-> SetIter(RevAdj(name), names)]

---------------------------------------------------------------------------
(* Inputs *)

\* services.json: the services in file order with their depends_on
Topologies ==
    { [names |-> <<"a", "b", "c">>, deps |-> [a |-> {}, b |-> {"a"}, c |-> {"b"}]],
      [names |-> <<"a", "b", "c">>, deps |-> [a |-> {"b"}, b |-> {"c"}, c |-> {}]],
      [names |-> <<"a", "b", "c">>, deps |-> [a |-> {}, b |-> {"a"}, c |-> {"a", "b"}]],
      [names |-> <<"a", "b", "c">>, deps |-> [a |-> {"b"}, b |-> {"a"}, c |-> {"b"}]],
      [names |-> <<"a", "b", "c">>, deps |-> [a |-> {}, b |-> {}, c |-> {"b"}]],
      [names |-> <<"a", "b", "c">>, deps |-> [a |-> {}, b |-> {"a", "x"}, c |-> {"x"}]],
      [names |-> <<"a", "b">>, deps |-> [a |-> {"a"}, b |-> {"a"}]],
      [names |-> <<>>, deps |-> <<>>] }

\* every service at 1.0, or one of them at an input health below it
InputHealthMaps(S) ==
    {h \in [S -> InputHealths] : Cardinality({s \in S : h[s] < One}) <= 1}

\* input health as written in services.json, in range or not: -0.25, 1.0, 1.5
RawHealths == {-4194304, 16777216, 25165824}

\* every service at 1.0, or one of them at another input health
RawHealthMaps(S) ==
    {h \in [S -> RawHealths] : Cardinality({s \in S : h[s] # One}) <= 1}

\* config.yaml, without and with cooldown / heal_to
Configs ==
    { [ticks |-> MaxTicks, threshold |-> th, alpha |-> al,
       has_cooldown |-> FALSE, cooldown |-> -1, heal_to |-> One] :
         th \in Thresholds, al \in Alphas }
    \cup
    { [ticks |-> MaxTicks, threshold |-> th, alpha |-> al,
       has_cooldown |-> TRUE, cooldown |-> cd, heal_to |-> ht] :
         th \in Thresholds, al \in Alphas, cd \in Cooldowns, ht \in HealTos }

---------------------------------------------------------------------------
(* The state machine *)

\* Service.__init__: self.health = float(health)
ServiceHealth(h) == h

\* the state after ServiceGraph(services_data) and Simulator(graph, config)
InitWith(topo, cfg, h0, ho) ==
    /\ names = topo.names
    /\ depends_on = topo.deps
    /\ config = cfg
    /\ hash_order = ho
    /\ health = [s \in SeqToSet(topo.names) |-> ServiceHealth(h0[s])]
    /\ initial_health = [s \in SeqToSet(topo.names) |-> ServiceHealth(h0[s])]
    /\ is_failed = [s \in SeqToSet(topo.names) |-> FALSE]
    /\ failed_at_tick = [s \in SeqToSet(topo.names) |-> -1]
    /\ recovery_timer = [s \in SeqToSet(topo.names) |-> -1]
    /\ tick = 0
    /\ pc = "tick"
    /\ events = <<>>
    /\ incident_log = <<>>
    /\ history = [s \in SeqToSet(topo.names) |-> <<>>]
    /\ log = <<>>
    /\ sweep = 0
    /\ changed = FALSE
    /\ query_result = [kind |-> "none"]

Init ==
    \E topo \in Topologies, cfg \in Configs :
        \E h0 \in InputHealthMaps(SeqToSet(topo.names)),
           ho \in HashOrders(topo.names) :
            InitWith(topo, cfg, h0, ho)

\* the same with input healths that may lie outside [0, 1]
InitRaw ==
    \E topo \in Topologies, cfg \in Configs :
        \E h0 \in RawHealthMaps(SeqToSet(topo.names)),
           ho \in HashOrders(topo.names) :
            InitWith(topo, cfg, h0, ho)

\* run's loop head, then run_tick: the snapshot and the glitch
StartTick ==
    /\ pc = "tick"
    /\ tick < config.ticks
    /\ tick' = tick + 1
    /\ initial_health' = health
    /\ history' = [s \in Services |->
                      Append(history[s], [tick |-> tick + 1, health |-> health[s],
                                          is_failed |-> is_failed[s]])]
    /\ IF Eligible = {}
       THEN /\ health' = health
            /\ events' = events
       ELSE \E victim \in Eligible, delta \in Deltas :
            /\ health' = [health EXCEPT ![victim] = Glitched(health[victim], delta)]
            /\ events' = Append(events,
                   [tick |-> tick + 1, type |-> "glitch", service |-> victim,
                    old_health |-> health[victim],
                    new_health |-> Glitched(health[victim], delta)])
    /\ pc' = "recover"
    /\ UNCHANGED <<query_result, names, depends_on, config, hash_order, is_failed, failed_at_tick,
                   recovery_timer, incident_log, log, sweep, changed>>

\* run_tick: self.handle_recovery()
Recover ==
    /\ pc = "recover"
    /\ LET st == HandleRecovery(NodeState, hash_order)
       IN  /\ health' = st.health
           /\ is_failed' = st.is_failed
           /\ recovery_timer' = st.recovery_timer
           /\ log' = st.log
    /\ sweep' = 0
    /\ changed' = FALSE
    /\ pc' = IF SweepCap(Len(names)) > 0 THEN "propagate" ELSE "classify"
    /\ UNCHANGED <<query_result, names, depends_on, config, hash_order, tick, initial_health,
                   failed_at_tick, events, incident_log, history>>

\* run_tick: self.propagate_health(), one pass of its outer loop
Sweep ==
    /\ pc = "propagate"
    /\ sweep < SweepCap(Len(names))
    /\ LET h2 == SweepOnce(health, names)
       IN  /\ health' = h2
           /\ changed' = (h2 # health)
           /\ pc' = IF h2 = health \/ sweep + 1 >= SweepCap(Len(names))
                    THEN "classify" ELSE "propagate"
    /\ sweep' = sweep + 1
    /\ UNCHANGED <<query_result, names, depends_on, config, hash_order, tick, initial_health,
                   is_failed, failed_at_tick, recovery_timer, events, incident_log,
                   history, log>>

\* run_tick from "failed_services = ..." to its end
Classify ==
    /\ pc = "classify"
    /\ LET F == FailedServices(health)
           newly == NewlyFailed(health, is_failed)
           marked == [s \in Services |-> is_failed[s] \/ s \in SeqToSet(newly)]
       IN  IF F = <<>>
           THEN IF names = <<>>
                THEN \* min() of an empty sequence raises ValueError
                     /\ pc' = "error"
                     /\ UNCHANGED <<is_failed, failed_at_tick, recovery_timer, events,
                                    incident_log, log>>
                ELSE /\ pc' = "tick"
                     /\ log' = Append(log,
                            [tag |-> "INFO", tick |-> tick,
                             service |-> MinByHealth(names, health),
                             old |-> health[MinByHealth(names, health)],
                             new |-> health[MinByHealth(names, health)]])
                     /\ UNCHANGED <<is_failed, failed_at_tick, recovery_timer, events,
                                    incident_log>>
           ELSE /\ pc' = "tick"
                /\ is_failed' = marked
                /\ failed_at_tick' =
                       [s \in Services |->
                           IF s \in SeqToSet(newly) THEN tick ELSE failed_at_tick[s]]
                /\ recovery_timer' =
                       [s \in Services |->
                           IF s \in SeqToSet(newly) THEN ArmedTimer ELSE recovery_timer[s]]
                /\ events' = events \o FailureEvents(newly, health)
                /\ incident_log' =
                       IF RcaDue(newly)
                       THEN Append(incident_log, Incident(F, health, marked, hash_order))
                       ELSE incident_log
                /\ log' = log
    /\ UNCHANGED <<query_result, names, depends_on, config, hash_order, tick, health, initial_health,
                   history, sweep, changed>>

Next == StartTick \/ Recover \/ Sweep \/ Classify

Spec == Init /\ [][Next]_vars

\* main with --query: after run() has returned, one why-failing query for a
\* service of the graph or for an unknown name
QueryWhyFailing ==
    /\ pc = "tick"
    /\ tick = config.ticks
    /\ \E name \in Services \cup {UnknownName} :
           query_result' = WhyFailing(name, depends_on)
    /\ pc' = "queried"
    /\ UNCHANGED <<names, depends_on, config, hash_order, tick, health,
                   initial_health, is_failed, failed_at_tick, recovery_timer,
                   events, incident_log, history, log, sweep, changed>>

NextQuery == Next \/ QueryWhyFailing

\* a run followed by a query
SpecQuery == Init /\ [][NextQuery]_vars

\* a run on input healths that may lie outside [0, 1]
SpecRaw == InitRaw /\ [][Next]_vars

---------------------------------------------------------------------------
(* Properties *)

\* every order of the elements of S
Perms(S) ==
    {p \in [1..Cardinality(S) -> S] :
        \A i, j \in 1..Cardinality(S) : p[i] = p[j] => i = j}

\* the log has a line with this tag for this tick
Logged(tag, t) == \E i \in 1..Len(log) : log[i].tag = tag /\ log[i].tick = t

\* C1: with input healths, threshold and heal_to in [0,1] and alpha >= 0,
\* every service has 0 <= health <= 1 after every phase of every tick
\* (glitch, heal, ripple recovery, each propagation sweep, classification).
C1_HealthInRange == \A s \in Services : 0 <= health[s] /\ health[s] <= One

\* C1 witness: propagation has just clamped a service at 0 (its baseline
\* minus its degradation is negative) in a tick in which a heal rippled.
C1_Witness ==
    /\ pc = "classify"
    /\ Logged("HEAL", tick)
    /\ Logged("RECOVERY", tick)
    /\ \E s \in Services :
           health[s] = 0 /\ initial_health[s] - Degradation(s, health) < 0

\* C2: at the end of every tick, a service is marked failed exactly when its
\* health is below the threshold or its recovery timer is armed (>= 0).
C2_FailedIff ==
    (pc = "tick" /\ tick >= 1) =>
        \A s \in Services :
            is_failed[s] <=> (health[s] < config.threshold \/ recovery_timer[s] >= 0)

\* C2 witness: the end of a tick in which a heal fired, with one service
\* marked failed and another that failed earlier and is marked failed no more.
C2_Witness ==
    /\ pc = "tick"
    /\ tick >= 2
    /\ Logged("HEAL", tick)
    /\ \E s \in Services : is_failed[s]
    /\ \E s \in Services : ~is_failed[s] /\ failed_at_tick[s] >= 1

\* C3: in every state (after every phase of every tick) a service whose
\* recovery timer is armed (>= 0) is marked failed.
C3_TimerImpliesFailed ==
    \A s \in Services : recovery_timer[s] >= 0 => is_failed[s]

\* C3 witness: handle_recovery has just run, its ripple lifted a failing
\* dependent to the threshold or above (clearing its flag and timer), and
\* another service still has its timer armed.
C3_Witness ==
    /\ pc = "propagate"
    /\ sweep = 0
    /\ \E i \in 1..Len(log) :
           /\ log[i].tag = "RECOVERY"
           /\ log[i].tick = tick
           /\ log[i].old < config.threshold
           /\ log[i].new >= config.threshold
           /\ ~is_failed[log[i].service]
    /\ \E s \in Services : recovery_timer[s] >= 0

\* the incident perform_rca appends in this state when sets iterate in order p
IncidentUnder(p) ==
    Incident(FailedServices(health), health,
             [s \in Services |-> is_failed[s] \/ health[s] < config.threshold], p)

\* healths, flags and timers of a record of NodeState's shape
Core(st) ==
    [health |-> st.health, is_failed |-> st.is_failed,
     recovery_timer |-> st.recovery_timer]

\* C4: the ledgers do not depend on the order in which sets are iterated:
\* from any state a run reaches, handle_recovery leaves the same healths,
\* flags and timers (from which all later events follow) and perform_rca
\* appends the same incident record, under every iteration order of the
\* reverse-adjacency and blast-radius sets; so two runs that draw the same
\* random numbers write identical event and incident ledgers.
C4_LedgersOrderIndependent ==
    /\ pc = "recover" =>
           \A p \in Perms(Services) :
               Core(HandleRecovery(NodeState, p)) =
                   Core(HandleRecovery(NodeState, hash_order))
    /\ (pc = "classify" /\ NewlyFailed(health, is_failed) # <<>>) =>
           \A p \in Perms(Services) : IncidentUnder(p) = IncidentUnder(hash_order)

\* C5: a propagation sweep never raises the health of any service.
C5_SweepNeverRaises ==
    [][pc = "propagate" => \A s \in Services : health'[s] <= health[s]]_vars

\* C6: on an acyclic graph, from the state in which propagate_health starts,
\* the healths it leaves are the same within the tolerance for every order
\* in which the services are swept.
C6_SweepOrderIndependent ==
    (pc = "propagate" /\ sweep = 0 /\ Acyclic) =>
        \A p \in Perms(Services) : \A s \in Services :
            Abs(PropagateHealth(health, p)[s] - PropagateHealth(health, names)[s])
                <= Tolerance

\* health(s) is within the tolerance of max(0, initial_health(s) - sum)
RuleHolds(s) ==
    Abs(health[s] - Max(0, initial_health[s] - Degradation(s, health))) <= Tolerance

C8_SweepsBounded ==
    /\ sweep <= Len(names)
    /\ pc = "propagate" => sweep < Len(names)

\* C8 witness: on a cyclic graph the last allowed sweep still changed a
\* health, and propagation stopped at the cap.
C8_Witness ==
    /\ pc = "classify"
    /\ ~Acyclic
    /\ sweep = Len(names)
    /\ changed

\* C9 as claimed: with cooldown configured, handle_recovery run twice leaves
\* the healths, flags and timers that one run leaves, in every state.
C9_IdempotentAlways ==
    config.has_cooldown =>
        Core(HandleRecovery(HandleRecovery(NodeState, hash_order), hash_order)) =
            Core(HandleRecovery(NodeState, hash_order))

\* C9 amended: the same, in every state in which no failed service has a
\* recovery timer of 2 or more (a timer of 2 or more counts down once per
\* run, so a second run moves it again).
C9_IdempotentWhenDue ==
    (config.has_cooldown /\
     \A s \in Services : ~(is_failed[s] /\ recovery_timer[s] >= 2)) =>
        Core(HandleRecovery(HandleRecovery(NodeState, hash_order), hash_order)) =
            Core(HandleRecovery(NodeState, hash_order))

\* C9 witness: no timer is 2 or more, and one run of handle_recovery heals
\* a service and bumps a dependent of it.
C9_Witness ==
    /\ config.has_cooldown
    /\ \A s \in Services : ~(is_failed[s] /\ recovery_timer[s] >= 2)
    /\ LET once == HandleRecovery(NodeState, hash_order)
       IN  /\ Len(once.log) >= Len(log) + 2
           /\ once.log[Len(once.log)].tag = "RECOVERY"
           /\ once.health # health

\* the event ledger records a failure of s in tick t
FailedAt(s, t) ==
    \E i \in 1..Len(events) :
        events[i].type = "failure" /\ events[i].service = s /\ events[i].tick = t

\* handle_recovery healed s in tick t
HealedAt(s, t) ==
    \E i \in 1..Len(log) :
        log[i].tag = "HEAL" /\ log[i].service = s /\ log[i].tick = t

\* the ripple of tick t lifted s to the threshold or above
RippleClearedAt(s, t) ==
    \E i \in 1..Len(log) :
        /\ log[i].tag = "RECOVERY" /\ log[i].service = s /\ log[i].tick = t
        /\ log[i].new >= config.threshold

\* handle_recovery of tick t has run
RecoveryDone(t) == tick > t \/ (tick = t /\ pc # "recover")

\* C10: with cooldown c >= 1, (a) a heal of s in tick T comes exactly c ticks
\* after a failure of s, with no failure of s in between (so never earlier
\* than t + c); (b) a service that newly failed in tick t has, once
\* handle_recovery of tick t + c has run, been healed in tick t + c unless a
\* ripple cleared it in a tick of (t, t + c]; (c) right after handle_recovery
\* a service healed in this tick has health heal_to, is_failed false and
\* recovery_timer -1.
C10_CooldownTiming ==
    (config.has_cooldown /\ config.cooldown >= 1) =>
        \A s \in Services :
            /\ \A T \in 1..tick :
                   HealedAt(s, T) =>
                       /\ FailedAt(s, T - config.cooldown)
                       /\ \A u \in (T - config.cooldown + 1)..(T - 1) : ~FailedAt(s, u)
            /\ \A t \in 1..tick :
                   (FailedAt(s, t) /\ RecoveryDone(t + config.cooldown)) =>
                       \/ HealedAt(s, t + config.cooldown)
                       \/ \E u \in (t + 1)..(t + config.cooldown) : RippleClearedAt(s, u)
            /\ (pc = "propagate" /\ sweep = 0 /\ HealedAt(s, tick)) =>
                   /\ health[s] = config.heal_to
                   /\ ~is_failed[s]
                   /\ recovery_timer[s] = -1

\* C10 witness: cooldown 2, a service that failed in tick 1 has just been
\* healed in tick 3.
C10_Witness ==
    /\ config.has_cooldown
    /\ config.cooldown = 2
    /\ pc = "propagate"
    /\ sweep = 0
    /\ \E s \in Services : FailedAt(s, 1) /\ HealedAt(s, 3) /\ ~RippleClearedAt(s, 2)

\* the glitch events recorded for tick t
GlitchesAt(t) ==
    {i \in 1..Len(events) : events[i].type = "glitch" /\ events[i].tick = t}

\* the failure events recorded for tick t
FailuresAt(t) ==
    {i \in 1..Len(events) : events[i].type = "failure" /\ events[i].tick = t}

\* the incidents recorded for tick t
IncidentsAt(t) == {i \in 1..Len(incident_log) : incident_log[i].tick = t}

\* new = max(0, old - delta) for some delta in [0.2, 0.5]
GlitchStep(old, new) ==
    \/ new > 0 /\ 5 * (old - new) >= One /\ 2 * (old - new) <= One
    \/ new = 0 /\ 2 * old <= One

\* C11: every tick records at most one glitch event, and exactly one when
\* some service has health >= threshold at tick start (none otherwise); the
\* victim's old_health is >= threshold and is its tick-start health, and
\* new_health = max(0, old_health - delta) with delta in [0.2, 0.5]; so a
\* service below the threshold is never glitched.
C11_GlitchContract ==
    \A t \in 1..tick :
        /\ Cardinality(GlitchesAt(t)) <= 1
        /\ GlitchesAt(t) # {} <=>
               \E s \in Services : history[s][t].health >= config.threshold
        /\ \A i \in GlitchesAt(t) :
               /\ events[i].old_health >= config.threshold
               /\ events[i].old_health = history[events[i].service][t].health
               /\ GlitchStep(events[i].old_health, events[i].new_health)

\* C11 witness: one tick glitched a service down to 0 (the clamp), and
\* another tick of the same run on a non-empty graph found no service
\* eligible and recorded no glitch.
C11_Witness ==
    /\ Services # {}
    /\ \E i \in 1..Len(events) :
           /\ events[i].type = "glitch"
           /\ events[i].new_health = 0
           /\ 2 * events[i].old_health < One
    /\ \E t \in 1..tick : GlitchesAt(t) = {}

\* C12: an incident with tick t is recorded exactly when a failure event
\* with tick t is recorded, at most one incident per tick, and a tick that
\* ends with no service below the threshold has recorded neither.
C12_IncidentIffFailure ==
    \A t \in 1..tick :
        /\ Cardinality(IncidentsAt(t)) <= 1
        /\ IncidentsAt(t) # {} <=> FailuresAt(t) # {}
        /\ (t = tick /\ pc = "tick" /\ FailedServices(health) = <<>>) =>
               (FailuresAt(t) = {} /\ IncidentsAt(t) = {})

\* C12 witness: a run with a tick that recorded a failure and an incident, a
\* later tick with services still below the threshold but none newly failed
\* (no incident), and earlier an all-healthy tick.
C12_Witness ==
    /\ pc = "tick"
    /\ tick = 3
    /\ FailuresAt(1) = {} /\ IncidentsAt(1) = {}
    /\ FailuresAt(2) # {} /\ IncidentsAt(2) # {}
    /\ FailuresAt(3) = {} /\ FailedServices(health) # <<>>

\* the services below the threshold
BelowThreshold == {s \in Services : health[s] < config.threshold}

\* the services below the threshold none of whose existing dependencies is
\* marked failed
Unblamed ==
    {s \in BelowThreshold : \A d \in depends_on[s] \cap Services : ~is_failed[d]}

\* the position of service s in the insertion order
Position(s) == CHOOSE i \in 1..Len(names) : names[i] = s

\* s has the lowest health of BelowThreshold, and is the first such service
Lowest(s) ==
    /\ s \in BelowThreshold
    /\ \A u \in BelowThreshold :
           \/ health[u] > health[s]
           \/ health[u] = health[s] /\ Position(u) >= Position(s)

\* the incident recorded in the tick that has just ended
LastIncident == incident_log[Len(incident_log)]

\* C13: at the end of a tick that recorded an incident (healths and flags
\* are those perform_rca saw), the incident's roots are exactly the services
\* below the threshold with no existing dependency marked failed, each once
\* and in insertion order; if there is none, roots is the one lowest-health
\* service below the threshold (the first in insertion order on a tie).
\* Every root is below the threshold.
C13_RootCauseSet ==
    (pc = "tick" /\ IncidentsAt(tick) # {}) =>
        LET roots == LastIncident.roots
        IN  /\ SeqToSet(roots) \subseteq BelowThreshold
            /\ \A i, j \in 1..Len(roots) : i < j => Position(roots[i]) < Position(roots[j])
            /\ IF Unblamed # {}
               THEN SeqToSet(roots) = Unblamed
               ELSE Len(roots) = 1 /\ Lowest(roots[1])

\* C13 witness: a tick has just recorded an incident for a failure set of
\* two or more services in which every service has a failed dependency (a
\* cycle), so the lowest-health fallback chose the root; an earlier tick
\* recorded an incident too.
C13_Witness ==
    /\ pc = "tick"
    /\ IncidentsAt(tick) # {}
    /\ Len(incident_log) >= 2
    /\ Cardinality(BelowThreshold) >= 2
    /\ Unblamed = {}

\* the chains u = p[1], p[2], ..., p[n] in which each service depends on
\* the next one (a chain without repetition has at most |services| members)
DependencyChains ==
    UNION {{p \in [1..n -> Services] :
               \A i \in 1..(n - 1) : p[i + 1] \in depends_on[p[i]]} :
           n \in 2..Len(names)}

\* the transitive dependents of r, r itself excluded
TransitiveDependents(r) ==
    {u \in Services \ {r} :
        \E p \in DependencyChains : p[1] = u /\ p[Len(p)] = r}

\* C14: in every incident (checked on each when it is recorded, as the last
\* of the ledger at the end of its tick), impacted[r] of each root r lists,
\* each once, the services that reach r over reverse adjacency (the
\* transitive dependents, healthy or not) without r itself, also when r lies
\* on a cycle; priority is a root whose list is the longest, and the first
\* such root in roots.
C14_IncidentPriority ==
    (pc = "tick" /\ IncidentsAt(tick) # {}) =>
        LET inc == LastIncident
            size(r) == Len(inc.impacted[r])
        IN  /\ \A r \in SeqToSet(inc.roots) :
                   LET dependents == TransitiveDependents(r)
                   IN  /\ SeqToSet(inc.impacted[r]) = dependents
                       /\ Len(inc.impacted[r]) = Cardinality(dependents)
            /\ \E i \in 1..Len(inc.roots) :
                   /\ inc.priority = inc.roots[i]
                   /\ \A j \in 1..Len(inc.roots) : size(inc.roots[j]) <= size(inc.roots[i])
                   /\ \A j \in 1..(i - 1) : size(inc.roots[j]) < size(inc.roots[i])

\* C14 witness: the run has an incident with two roots of different blast
\* radius whose priority is not the first root.
C14_Witness ==
    \E k \in 1..Len(incident_log) :
        LET inc == incident_log[k]
        IN  /\ Len(inc.roots) >= 2
            /\ inc.priority # inc.roots[1]
            /\ Len(inc.impacted[inc.priority]) > Len(inc.impacted[inc.roots[1]])

\* the glitch of this step hit s
GlitchedNow(s) ==
    /\ Len(events') = Len(events) + 1
    /\ events'[Len(events')].type = "glitch"
    /\ events'[Len(events')].service = s

\* handle_recovery of this step healed s
HealedNow(s) ==
    \E i \in (Len(log) + 1)..Len(log') : log'[i].tag = "HEAL" /\ log'[i].service = s

\* C15: the health of a service with an empty dependency set changes only
\* in the glitch step, when it is the victim, or in handle_recovery, when
\* its own cooldown heal fires (and then to heal_to); propagate_health and
\* ripple recovery never change it.
C15_NoDependencyIsolation ==
    [][\A s \in Services :
          (depends_on[s] = {} /\ health'[s] # health[s]) =>
              \/ pc = "tick" /\ GlitchedNow(s)
              \/ pc = "recover" /\ HealedNow(s) /\ health'[s] = config.heal_to]_vars

\* C15 witness: handle_recovery has just healed a service and its ripple
\* bumped a dependent, while a service with no dependencies that was not
\* healed stays below heal_to, and propagation then lowered some health.
C15_Witness ==
    /\ pc = "classify"
    /\ Logged("RECOVERY", tick)
    /\ \E s \in Services :
           /\ depends_on[s] = {}
           /\ ~HealedAt(s, tick)
           /\ health[s] < config.heal_to
    /\ \E u \in Services : depends_on[u] # {} /\ health[u] < initial_health[u]

\* C16: in each propagate_recovery invocation every dependent is evaluated
\* for a bump at most once (checked on the invocations handle_recovery is
\* about to make), also in a diamond or a cycle.
C16_EvaluatedOnce ==
    pc = "recover" =>
        \A k \in 1..Len(RippleRuns(NodeState, hash_order)) :
            LET evaluated == RippleRuns(NodeState, hash_order)[k].evaluated
            IN  \A i, j \in 1..Len(evaluated) : evaluated[i] = evaluated[j] => i = j

\* C20: each propagate_recovery invocation evaluates every service that
\* reaches the healed one over reverse adjacency, also behind a dependent
\* that received no bump.
C20_RippleReachesAll ==
    pc = "recover" =>
        \A k \in 1..Len(RippleRuns(NodeState, hash_order)) :
            TransitiveDependents(HealedServices(NodeState)[k]) \subseteq
                SeqToSet(RippleRuns(NodeState, hash_order)[k].evaluated)

\* C17: on the empty graph no tick raises an error, and the run records no
\* glitch event, no failure event and no incident.
C17_EmptyGraphRuns ==
    names = <<>> => (pc # "error" /\ events = <<>> /\ incident_log = <<>>)

\* the dependency sets with the names that are no service removed
PrunedDeps == [s \in Services |-> depends_on[s] \cap Services]

\* C18: the why-failing query ignores dangling dependency names: it never
\* fails on one, returns a report for every service below the threshold, and
\* returns what it returns on the graph with the dangling names removed.
C18_DanglingIgnored ==
    pc = "queried" =>
        /\ query_result.kind # "KeyError"
        /\ query_result = WhyFailing(query_result.service, PrunedDeps)
        /\ (query_result.service \in Services
            /\ health[query_result.service] < config.threshold) =>
               query_result.kind = "report"

\* C19: an input health outside [0,1] is clamped at construction: before the
\* first tick every health is within [0,1], and so is every first history
\* sample.
C19_InputClamped ==
    \A s \in Services :
        /\ tick = 0 => (0 <= health[s] /\ health[s] <= One)
        /\ tick >= 1 => (0 <= history[s][1].health /\ history[s][1].health <= One)

\* no existing dependency of s is below the threshold under healths h
DepsHealthy(s, h) == \A d \in depends_on[s] \cap Services : h[d] >= config.threshold

\* C21 as claimed: in the tick in which a service is healed with heal_to >=
\* threshold, it is at or above the threshold whenever propagation reads it
\* (after recovery and after every sweep), so it degrades none of its
\* dependents, also when one of its own dependencies is below the threshold.
C21_HealedServesHealthy ==
    (pc \in {"propagate", "classify"} /\ config.has_cooldown
     /\ config.heal_to >= config.threshold) =>
        \A h \in Services :
            (HealedAt(h, tick) /\ RevAdj(h) # {}) => health[h] >= config.threshold

\* C21 amended: in the tick in which a service is healed with heal_to >=
\* threshold, a sweep before and after which none of its existing
\* dependencies is below the threshold leaves it at heal_to, so it stays a
\* healthy dependency; (a sweep that finds one of its dependencies below the
\* threshold sets it to its tick-start snapshot minus the degradation).
C21_HealedStaysHealthy ==
    [][(pc = "propagate" /\ config.has_cooldown
        /\ config.heal_to >= config.threshold) =>
           \A h \in Services :
               (/\ HealedAt(h, tick)
                /\ health[h] = config.heal_to
                /\ DepsHealthy(h, health)
                /\ DepsHealthy(h, health')) => health'[h] = config.heal_to]_vars

\* C21 witness: propagation has run in a tick that healed a service with
\* heal_to >= threshold which has an existing dependency and a dependent;
\* its dependencies are healthy and it is still at heal_to.
C21_Witness ==
    /\ pc = "classify"
    /\ sweep >= 1
    /\ config.has_cooldown
    /\ config.heal_to >= config.threshold
    /\ \E h \in Services :
           /\ HealedAt(h, tick)
           /\ depends_on[h] \cap Services # {}
           /\ RevAdj(h) \ {h} # {}
           /\ DepsHealthy(h, health)
           /\ health[h] = config.heal_to

\* C22: with cooldown c >= 0 configured, (a) a service marked failed in tick
\* t has, once handle_recovery of tick t + max(c, 1) has run, been healed or
\* lifted to the threshold by a ripple in some tick of (t, t + max(c, 1)],
\* and right after the handle_recovery that did so its is_failed flag is
\* clear; (b) with c = 0 the heal fires in tick t + 1; (c) at every tick end
\* a failed service's recovery_timer lies in 0..c.
C22_BoundedFailure ==
    config.has_cooldown =>
        \A s \in Services :
            /\ \A t \in 1..tick :
                   (FailedAt(s, t) /\ RecoveryDone(t + Max(config.cooldown, 1))) =>
                       \E u \in (t + 1)..(t + Max(config.cooldown, 1)) :
                           HealedAt(s, u) \/ RippleClearedAt(s, u)
            /\ (/\ pc = "propagate" /\ sweep = 0
                /\ (HealedAt(s, tick) \/ RippleClearedAt(s, tick))) => ~is_failed[s]
            /\ \A t \in 1..tick :
                   (config.cooldown = 0 /\ FailedAt(s, t) /\ RecoveryDone(t + 1)) =>
                       HealedAt(s, t + 1)
            /\ (pc = "tick" /\ is_failed[s]) =>
                   (0 <= recovery_timer[s] /\ recovery_timer[s] <= config.cooldown)

\* C22 witness: cooldown 0, a tick has ended in which a service that was
\* marked failed in the tick before was healed and again marked failed,
\* with its timer at 0.
C22_Witness ==
    /\ config.has_cooldown
    /\ config.cooldown = 0
    /\ pc = "tick"
    /\ \E s \in Services :
           /\ FailedAt(s, tick - 1)
           /\ HealedAt(s, tick)
           /\ is_failed[s]
           /\ recovery_timer[s] = 0

====
